---- MODULE Spec2Model ----
(***************************************************************************)
(* Frame-to-colour reduction of mini-ambilight-bluetooth:                  *)
(*   src/src/vibrant.rs  Palette::new, Vibrancy (swatch classification)    *)
(*   src/src/main.rs     the capture loop, the three sampling strategies,  *)
(*                       gamma / HSL correction and temporal fading        *)
(*                                                                         *)
(* Floating point values in [0,1] are carried as fixed-point integers with *)
(* Scale units per 1.0; 8-bit channels keep their values 0..255.           *)
(***************************************************************************)
EXTENDS Integers, Sequences, FiniteSets, TLC

VARIABLES
  \* ---- Palette::new / generate_varation_colors (vibrant.rs) ----
  image,          \* the pixels of the image given to Palette::new (RGBA)
  quant,          \* the trained NeuQuant: [colormap, index]
  palette,        \* the Palette built (Palette::default before)
  vibrancy,       \* the Vibrancy record being filled
  vstep,          \* position in the vibrancy pipeline, 0 .. 8
  sample,         \* the raw sample of the Vibrancy strategy (u8 channels)
  \* ---- the frame loop (main.rs 76-164) ----
  pc,             \* "capture" | "write" | "exited"
  fade,           \* the fade weight, in hundredths
  previous_pixel, \* the running colour, fixed point
  corrected,      \* the post gamma/HSL sample of the last frame (history)
  color_cmd,      \* the command bytes built by the last iteration
  frames,         \* number of capture attempts so far
  trace,          \* history: the capture / update / write events so far
  \* ---- MostDominant sort (main.rs 106-123) ----
  dominant,       \* the palette returned by get_palette, then sorted
  sorted,         \* the strategy's `sorted` parameter
  build,          \* "debug" (overflow checks) | "release" (wrapping)
  keys,           \* the key the closure returned for dominant[i], once sorted
  dominant_color, \* the strategy's sample, dominant[0] / 255
  spc,            \* "start" | "sorted" | "done" | "panicked"
  \* ---- SquaredAverage (main.rs 83-105) ----
  width, height, sample_rate,  \* the frame size; the rate in hundredths
  sample_width, sample_height, step_x, step_y,
  buffer,         \* the captured pixels, row-major, as RGB
  x, y, samples, reads, sampled_color, avg,
  qpc             \* "start" | "loop" | "done" | "panicked"

vibVars  == <<image, quant, palette, vibrancy, vstep, sample>>
loopVars == <<pc, fade, previous_pixel, corrected, color_cmd, frames, trace>>
sortVars == <<dominant, sorted, build, keys, dominant_color, spc>>
sqVars   == <<width, height, sample_rate, sample_width, sample_height,
              step_x, step_y, buffer, x, y, samples, reads, sampled_color,
              avg, qpc>>
vars     == <<vibVars, loopVars, sortVars, sqVars>>

-----------------------------------------------------------------------------
\* Bounds of the model
MaxPixels == 2        \* pixels of an image given to Palette::new
NetSize   == 3        \* colours of the quantizer's colour map (color_count)
MaxFrames == 3        \* iterations of the frame loop
FramePixels == 1      \* pixels of a frame of the loop, after the resize
MaxDim    == 4        \* width and height of a SquaredAverage frame

\* Fixed-point resolution: Scale units per 1.0
Scale == 100 * 100
Pct(p) == p * (Scale \div 100)

None == <<>>          \* Option::None; Some(c) is the colour c itself

Max2(a, b) == IF a >= b THEN a ELSE b
Min2(a, b) == IF a <= b THEN a ELSE b
Abs(a) == IF a >= 0 THEN a ELSE -a
Max3(c) == Max2(c[1], Max2(c[2], c[3]))
Min3(c) == Min2(c[1], Min2(c[2], c[3]))

-----------------------------------------------------------------------------
\* settings (vibrant.rs 228-249), in hundredths
TARGET_DARK_LUMA == 26
MAX_DARK_LUMA == 45
MIN_LIGHT_LUMA == 55
TARGET_LIGHT_LUMA == 74
MIN_NORMAL_LUMA == 30
TARGET_NORMAL_LUMA == 50
MAX_NORMAL_LUMA == 70
TARGET_MUTED_SATURATION == 30
MAX_MUTED_SATURATION == 40
TARGET_VIBRANT_SATURATION == 100
MIN_VIBRANT_SATURATION == 35
WEIGHT_SATURATION == 3
WEIGHT_LUMA == 6
WEIGHT_POPULATION == 1

\* is_boring_pixel (vibrant.rs 345-355)
MIN_ALPHA == 125
MAX_COLOR == 250

\* The test without its alpha condition
is_boring_pixel_ignores_alpha(pixel) ==
  pixel[1] > MAX_COLOR /\ pixel[2] > MAX_COLOR /\ pixel[3] > MAX_COLOR

is_boring_pixel(pixel) ==
  LET r == pixel[1]
      g == pixel[2]
      b == pixel[3]
      a == pixel[4]
      interesting == (a >= MIN_ALPHA)
                     /\ ~(r > MAX_COLOR /\ g > MAX_COLOR /\ b > MAX_COLOR)
  IN ~interesting

\* Rgba::to_rgb
to_rgb(rgba) == <<rgba[1], rgba[2], rgba[3]>>

\* flat_pixels: the training set, the pixels that are not boring
\* (vibrant.rs 282-291)
flat_pixels(pixels) == SelectSeq(pixels, LAMBDA p : ~is_boring_pixel(p))

\* HSL::from_rgb of the hsl crate: lightness and saturation of an RGB colour
HslL(c) == ((Max3(c) + Min3(c)) * Scale) \div 510
HslS(c) ==
  LET mx == Max3(c)
      mn == Min3(c)
  IN IF mx = mn THEN 0
     ELSE IF mx + mn > 255
          THEN ((mx - mn) * Scale) \div (510 - mx - mn)
          ELSE ((mx - mn) * Scale) \div (mx + mn)

\* BTreeMap::get(&index).unwrap_or(&0)
GetCount(pixel_counts, index) ==
  IF index \in DOMAIN pixel_counts THEN pixel_counts[index] ELSE 0

RECURSIVE SumOver(_, _)
SumOver(f, keyset) ==
  IF keyset = {} THEN 0
  ELSE LET k == CHOOSE k \in keyset : TRUE
       IN f[k] + SumOver(f, keyset \ {k})

\* pixel_counts.values().fold(0, |acc, c| acc + c)   (vibrant.rs 51)
CompletePopulation(pixel_counts) == SumOver(pixel_counts, DOMAIN pixel_counts)

\* invert_diff (vibrant.rs 191-193)
invert_diff(val, target_val) == Scale - Abs(val - target_val)

\* weighted_mean over the three fixed terms (vibrant.rs 195-203)
weighted_mean(v1, w1, v2, w2, v3, w3) ==
  (v1 * w1 + v2 * w2 + v3 * w3) \div (w1 + w2 + w3)

\* create_comparison_value (vibrant.rs 205-218)
create_comparison_value(sat, target_sat, luma, target_luma,
                        population, max_population) ==
  weighted_mean(invert_diff(sat, target_sat), WEIGHT_SATURATION,
                invert_diff(luma, target_luma), WEIGHT_LUMA,
                (population * Scale) \div max_population, WEIGHT_POPULATION)

\* The comparison with one field left out: primary is not looked at
color_already_set_skips_primary(self, color) ==
  \/ self.dark = color
  \/ self.light = color
  \/ self.muted = color
  \/ self.dark_muted = color
  \/ self.light_muted = color

\* Vibrancy::color_already_set (vibrant.rs 31-39)
color_already_set(self, color) ==
  \/ self.primary = color
  \/ self.dark = color
  \/ self.light = color
  \/ self.muted = color
  \/ self.dark_muted = color
  \/ self.light_muted = color

\* Eligibility test of find_color_variation (vibrant.rs 56-60)
InWindow(self, swatch, luma, saturation) ==
  /\ HslS(swatch) >= saturation.min
  /\ HslS(swatch) <= saturation.max
  /\ HslL(swatch) >= luma.min
  /\ HslL(swatch) <= luma.max
  /\ ~color_already_set(self, swatch)

\* Vibrancy::find_color_variation (vibrant.rs 41-82); palette indices are
\* zero-based as in the code, palette[index + 1] is the swatch at index
find_color_variation(self, pal, pixel_counts, luma, saturation) ==
  LET complete_population == CompletePopulation(pixel_counts)
      RECURSIVE Iterate(_, _, _)
      Iterate(index, max, max_value) ==
        IF index >= Len(pal) THEN max
        ELSE LET swatch == pal[index + 1]
                 population == GetCount(pixel_counts, index)
             IN IF InWindow(self, swatch, luma, saturation) /\ population # 0
                THEN LET value == create_comparison_value(
                                     HslS(swatch), saturation.target,
                                     HslL(swatch), luma.target,
                                     population, complete_population)
                     IN IF max = None \/ value > max_value
                        THEN Iterate(index + 1, swatch, value)
                        ELSE Iterate(index + 1, max, max_value)
                ELSE Iterate(index + 1, max, max_value)
  IN Iterate(0, None, 0)

MTM(mn, target, mx) == [min |-> Pct(mn), target |-> Pct(target), max |-> Pct(mx)]

\* The six calls of generate_varation_colors, in the order of the code
\* (vibrant.rs 98-186)
CategoryOrder ==
  <<"primary", "light", "dark", "muted", "light_muted", "dark_muted">>

LumaOf(category) ==
  CASE category \in {"primary", "muted"} ->
         MTM(MIN_NORMAL_LUMA, TARGET_NORMAL_LUMA, MAX_NORMAL_LUMA)
    [] category \in {"light", "light_muted"} ->
         MTM(MIN_LIGHT_LUMA, TARGET_LIGHT_LUMA, 100)
    [] category \in {"dark", "dark_muted"} ->
         MTM(0, TARGET_DARK_LUMA, MAX_DARK_LUMA)

SaturationOf(category) ==
  CASE category \in {"primary", "light", "dark"} ->
         MTM(MIN_VIBRANT_SATURATION, TARGET_VIBRANT_SATURATION, 100)
    [] category \in {"muted", "light_muted", "dark_muted"} ->
         MTM(0, TARGET_MUTED_SATURATION, MAX_MUTED_SATURATION)

\* Vibrancy::default()
VibrancyDefault ==
  [primary |-> None, dark |-> None, light |-> None,
   muted |-> None, dark_muted |-> None, light_muted |-> None]

\* One assignment of generate_varation_colors: the n-th category (1..6)
AssignStep(v, p, n) ==
  LET category == CategoryOrder[n]
  IN [v EXCEPT ![category] =
        find_color_variation(v, p.palette, p.pixel_counts,
                             LumaOf(category), SaturationOf(category))]

\* generate_varation_colors (vibrant.rs 96-189)
RECURSIVE GenerateFrom(_, _, _)
GenerateFrom(v, p, n) ==
  IF n > Len(CategoryOrder) THEN v
  ELSE GenerateFrom(AssignStep(v, p, n), p, n + 1)

generate_varation_colors(p) == GenerateFrom(VibrancyDefault, p, 1)

-----------------------------------------------------------------------------
\* The quantizer (color_quant::NeuQuant) is a library outside the repository.
\* What Palette::new uses of it: a colour map of color_count RGBA entries and
\* index_of, the index (zero-based) of the colour map entry nearest a pixel.
\* The colour map it learns is not constrained here: any map is possible.

Vivid  == <<230, 100, 100>>   \* l = 0.647, s = 0.72: primary and light windows
Grey   == <<160, 160, 160>>   \* l = 0.627, s = 0:    muted and light_muted
Silver == <<200, 200, 200>>   \* l = 0.784, s = 0:    light_muted only
Maroon == <<128, 0, 0>>       \* l = 0.251, s = 1:    dark
Black  == <<0, 0, 0>>         \* l = 0,     s = 0:    dark_muted
White  == <<255, 255, 255>>

Rgba(c, a) == <<c[1], c[2], c[3], a>>

\* Pixels an image is made of: two interesting ones, a white one and a
\* transparent one (both boring)
PixelSet == {Rgba(Vivid, 255), Rgba(Black, 255), Rgba(White, 255),
             <<10, 10, 10, 0>>}

\* Entries a colour map is made of
CMapColors == {Rgba(Vivid, 255), Rgba(Grey, 255), Rgba(Silver, 255),
               Rgba(Maroon, 255), Rgba(Black, 255)}

ImageSet == UNION {[1..n -> PixelSet] : n \in 1..MaxPixels}

\* NeuQuant's distance between a pixel and a colour map entry
Dist(p, c) ==
  Abs(p[1] - c[1]) + Abs(p[2] - c[2]) + Abs(p[3] - c[3]) + Abs(p[4] - c[4])

\* NeuQuant::index_of returns an entry at the least distance
IsNearest(colormap, i, p) ==
  \A j \in 1..Len(colormap) : Dist(p, colormap[i + 1]) <= Dist(p, colormap[j])

\* The quantizers that may classify the pixels of an image: index_of is a
\* function of the pixel's value
PixelsOf(pixels) == {pixels[k] : k \in 1..Len(pixels)}

QuantSet(pixels) ==
  {q \in [colormap : [1..NetSize -> CMapColors],
          index : [PixelsOf(pixels) -> 0..(NetSize - 1)]] :
     \A p \in PixelsOf(pixels) : IsNearest(q.colormap, q.index[p], p)}

\* Itertools::unique: first occurrences, in order
RECURSIVE UniqueFrom(_, _, _)
UniqueFrom(s, k, acc) ==
  IF k > Len(s) THEN acc
  ELSE IF \E j \in 1..Len(acc) : acc[j] = s[k]
       THEN UniqueFrom(s, k + 1, acc)
       ELSE UniqueFrom(s, k + 1, Append(acc, s[k]))

Unique(s) == UniqueFrom(s, 1, <<>>)

\* A histogram over the interesting pixels only
PixelCountsOfTrainingSet(pixels, q) ==
  LET kept == flat_pixels(pixels)
      hit == {q.index[kept[k]] : k \in 1..Len(kept)}
  IN [i \in hit |-> Cardinality({k \in 1..Len(kept) : q.index[kept[k]] = i})]

\* pixel_counts of Palette::new (vibrant.rs 295-301): every pixel of the
\* image is classified by quant.index_of and counted under that index
PixelCounts(pixels, q) ==
  LET hit == {q.index[pixels[k]] : k \in 1..Len(pixels)}
  IN [i \in hit |-> Cardinality({k \in 1..Len(pixels) : q.index[pixels[k]] = i})]

\* palette of Palette::new (vibrant.rs 303-313): the colour map, as RGB,
\* without repetitions
PaletteColors(q) ==
  Unique([k \in 1..Len(q.colormap) |-> to_rgb(q.colormap[k])])

\* Palette::new (vibrant.rs 272-319). The training set flat_pixels only feeds
\* NeuQuant::new; the function has no failure path and returns a Palette.
PaletteNew(pixels, q) ==
  [palette |-> PaletteColors(q), pixel_counts |-> PixelCounts(pixels, q)]

\* Palette::default()
PaletteDefault == [palette |-> <<>>, pixel_counts |-> <<>>]

\* Option::or
Or(a, b) == IF a # None THEN a ELSE b

\* A chain that skips light_muted
VibrancySampleSkipsLightMuted(v) ==
  LET color == Or(v.primary, Or(v.light, Or(v.muted,
               Or(v.dark_muted, v.dark))))
  IN IF color # None THEN color ELSE Black

\* The fallback chain of the Vibrancy strategy (main.rs 138-145)
VibrancySample(v) ==
  LET color == Or(v.primary, Or(v.light, Or(v.light_muted, Or(v.muted,
               Or(v.dark_muted, v.dark)))))
  IN IF color # None THEN color ELSE Black

\* Vibrancy::new (vibrant.rs 23-29)
VibrancyNew(pixels, q) == generate_varation_colors(PaletteNew(pixels, q))

-----------------------------------------------------------------------------
\* Idle values of the variables a specification does not use
LoopIdle ==
  /\ pc = "idle" /\ fade = 0 /\ previous_pixel = <<0, 0, 0>>
  /\ corrected = <<0, 0, 0>> /\ color_cmd = <<>> /\ frames = 0 /\ trace = <<>>

VibIdle ==
  /\ image = <<>> /\ quant = <<>> /\ palette = PaletteDefault
  /\ vibrancy = VibrancyDefault /\ vstep = 0 /\ sample = None

SortIdle ==
  /\ dominant = <<>> /\ sorted = FALSE /\ build = "idle" /\ keys = <<>>
  /\ dominant_color = None /\ spc = "idle"

SqIdle ==
  /\ width = 0 /\ height = 0 /\ sample_rate = 0
  /\ sample_width = 0 /\ sample_height = 0 /\ step_x = 0 /\ step_y = 0
  /\ buffer = <<>>
  /\ x = 0 /\ y = 0 /\ samples = 0 /\ reads = {} /\ sampled_color = <<0, 0, 0>>
  /\ avg = <<0, 0, 0>> /\ qpc = "idle"

-----------------------------------------------------------------------------
\* The Vibrancy strategy on one image, step by step

VibInit ==
  /\ image \in ImageSet
  /\ quant \in QuantSet(image)
  /\ palette = PaletteDefault
  /\ vibrancy = VibrancyDefault
  /\ vstep = 0
  /\ sample = None
  /\ LoopIdle /\ SortIdle /\ SqIdle

\* Palette::new(image, 256, 10)
BuildPalette ==
  /\ vstep = 0
  /\ palette' = PaletteNew(image, quant)
  /\ vstep' = 1
  /\ UNCHANGED <<image, quant, vibrancy, sample, loopVars, sortVars, sqVars>>

\* vibrancy.<category> = vibrancy.find_color_variation(...)
AssignCategory ==
  /\ vstep \in 1..Len(CategoryOrder)
  /\ vibrancy' = AssignStep(vibrancy, palette, vstep)
  /\ vstep' = vstep + 1
  /\ UNCHANGED <<image, quant, palette, sample, loopVars, sortVars, sqVars>>

\* the fallback chain picks the raw sample
PickSample ==
  /\ vstep = Len(CategoryOrder) + 1
  /\ sample' = VibrancySample(vibrancy)
  /\ vstep' = vstep + 1
  /\ UNCHANGED <<image, quant, palette, vibrancy, loopVars, sortVars, sqVars>>

VibNext == BuildPalette \/ AssignCategory \/ PickSample

VibSpec == VibInit /\ [][VibNext]_vars

-----------------------------------------------------------------------------
\* The frame loop (main.rs 76-164) with COLOR_ALGORITHM = Vibrancy

\* main.rs 28-31; the weights in hundredths
COLOR_GAMMA == 1
COLOR_FADE == 80
COLOR_CORRECT_LIGHT == 90
COLOR_CORRECT_SATURATION == 90

\* Fade weights of a run: none, the configured one, full
FadeSet == {0, COLOR_FADE, 100}

\* integer square root, by bisection on lo..hi
RECURSIVE SqrtBetween(_, _, _)
SqrtBetween(n, lo, hi) ==
  IF lo >= hi THEN lo
  ELSE LET mid == (lo + hi + 1) \div 2
       IN IF mid * mid <= n THEN SqrtBetween(n, mid, hi)
          ELSE SqrtBetween(n, lo, mid - 1)

Sqrt(n) == SqrtBetween(n, 0, Scale)

\* mix (main.rs 167-169): sqrt(x*x*(1-weight) + y*y*weight)
mix(xv, yv, weight) ==
  Sqrt(((xv * xv) \div 100) * (100 - weight) + ((yv * yv) \div 100) * weight)

\* Vec3::new(color.0[0] as f32, ..) / 255.0   (main.rs 146)
Normalize(c) == [k \in 1..3 |-> (c[k] * Scale) \div 255]

\* color.powf(1.0 / COLOR_GAMMA) (main.rs 150): with COLOR_GAMMA = 1.0 the
\* exponent is 1 and every channel keeps its value
ApplyGamma(c) == [k \in 1..3 |-> c[k] * COLOR_GAMMA]

\* Rgb -> Hsl of the palette crate (main.rs 151); the hue in sextants
RgbToHsl(c) ==
  LET mx == Max3(c)
      mn == Min3(c)
      d == mx - mn
      l == (mx + mn) \div 2
      s == IF d = 0 THEN 0
           ELSE Min2(Scale, (d * Scale) \div (Scale - Abs(mx + mn - Scale)))
      h == IF d = 0 THEN 0
           ELSE IF mx = c[1] THEN (((c[2] - c[3]) * Scale) \div d) % (6 * Scale)
           ELSE IF mx = c[2] THEN ((c[3] - c[1]) * Scale) \div d + 2 * Scale
           ELSE ((c[1] - c[2]) * Scale) \div d + 4 * Scale
  IN [h |-> h, s |-> s, l |-> l]

\* Hsl -> Rgb of the palette crate (main.rs 154)
HslToRgb(hsl) ==
  LET c == ((Scale - Abs(2 * hsl.l - Scale)) * hsl.s) \div Scale
      hm == hsl.h % (2 * Scale)
      xx == (c * (Scale - Abs(hm - Scale))) \div Scale
      m == hsl.l - c \div 2
      sextant == hsl.h \div Scale
      rgb == CASE sextant = 0 -> <<c, xx, 0>>
               [] sextant = 1 -> <<xx, c, 0>>
               [] sextant = 2 -> <<0, c, xx>>
               [] sextant = 3 -> <<0, xx, c>>
               [] sextant = 4 -> <<xx, 0, c>>
               [] OTHER -> <<c, 0, xx>>
  IN [k \in 1..3 |-> rgb[k] + m]

\* gamma and the HSL remap (main.rs 150-155), from the raw u8 sample
Correct(raw) ==
  LET hsl == RgbToHsl(ApplyGamma(Normalize(raw)))
      remapped == [hsl EXCEPT !.l = mix(hsl.l, Scale \div 2, COLOR_CORRECT_LIGHT),
                              !.s = mix(hsl.s, Scale, COLOR_CORRECT_SATURATION)]
  IN HslToRgb(remapped)

\* The fade with its weights exchanged
FadeSwapped(previous, color, weight) ==
  [k \in 1..3 |->
     (previous[k] * (100 - weight) + color[k] * weight) \div 100]

\* previous_pixel * COLOR_FADE + color * (1.0 - COLOR_FADE)   (main.rs 156)
Fade(previous, color, weight) ==
  [k \in 1..3 |->
     (previous[k] * weight + color[k] * (100 - weight)) \div 100]

\* (color * 255.0).min(Vec3::splat(255.0)) and the command (main.rs 158-160)
ColorCmd(color) ==
  <<1, Min2((color[1] * 255) \div Scale, 255),
       Min2((color[2] * 255) \div Scale, 255),
       Min2((color[3] * 255) \div Scale, 255), 100>>

\* What the Vibrancy strategy can return for a frame: every resized frame,
\* every quantizer that may have been trained on it (main.rs 124-147)
FrameSet == UNION {[1..n -> PixelSet] : n \in 1..FramePixels}

RawSamples ==
  UNION {{VibrancySample(VibrancyNew(f, q)) : q \in QuantSet(f)} :
           f \in FrameSet}

LoopInit ==
  /\ pc = "capture"
  /\ fade \in FadeSet
  /\ previous_pixel = <<0, 0, 0>>
  /\ corrected = <<0, 0, 0>>
  /\ color_cmd = <<>>
  /\ frames = 0
  /\ trace = <<>>
  /\ VibIdle /\ SortIdle /\ SqIdle

\* One iteration up to the write: capture_frame succeeded, the strategy
\* reduced the frame, the sample was corrected, faded and stored
CaptureFrame ==
  /\ pc = "capture"
  /\ frames < MaxFrames
  /\ \E raw \in RawSamples :
       LET color == Fade(previous_pixel, Correct(raw), fade)
       IN /\ corrected' = Correct(raw)
          /\ previous_pixel' = color
          /\ color_cmd' = ColorCmd(color)
          /\ trace' = trace \o
               <<[ev |-> "capture", n |-> frames + 1, raw |-> raw,
                  before |-> previous_pixel],
                 [ev |-> "update", n |-> frames + 1, after |-> color]>>
  /\ frames' = frames + 1
  /\ pc' = "write"
  /\ UNCHANGED <<fade, vibVars, sortVars, sqVars>>

\* A failed capture that keeps the loop going with the last command
CaptureFailedKeepsGoing ==
  /\ pc = "capture"
  /\ frames < MaxFrames
  /\ frames' = frames + 1
  /\ trace' = Append(trace, [ev |-> "capture_failed", n |-> frames + 1])
  /\ pc' = IF color_cmd = <<>> THEN "capture" ELSE "write"
  /\ UNCHANGED <<fade, previous_pixel, corrected, color_cmd,
                 vibVars, sortVars, sqVars>>

\* capture_frame returned an error: `?` leaves main (main.rs 78-80)
CaptureFailed ==
  /\ pc = "capture"
  /\ frames < MaxFrames
  /\ frames' = frames + 1
  /\ trace' = Append(trace, [ev |-> "capture_failed", n |-> frames + 1])
  /\ pc' = "exited"
  /\ UNCHANGED <<fade, previous_pixel, corrected, color_cmd,
                 vibVars, sortVars, sqVars>>

\* light.write(..).await succeeded: the loop goes round (main.rs 161-164)
WriteDone ==
  /\ pc = "write"
  /\ trace' = Append(trace, [ev |-> "write", n |-> frames, cmd |-> color_cmd])
  /\ pc' = "capture"
  /\ UNCHANGED <<fade, previous_pixel, corrected, color_cmd, frames,
                 vibVars, sortVars, sqVars>>

\* light.write(..).await returned an error: `?` leaves main (main.rs 163)
WriteFailed ==
  /\ pc = "write"
  /\ trace' = Append(trace, [ev |-> "write_failed", n |-> frames])
  /\ pc' = "exited"
  /\ UNCHANGED <<fade, previous_pixel, corrected, color_cmd, frames,
                 vibVars, sortVars, sqVars>>

Next == CaptureFrame \/ CaptureFailed \/ WriteDone \/ WriteFailed

Init == LoopInit

Spec == Init /\ [][Next]_vars

-----------------------------------------------------------------------------
\* The MostDominant strategy after get_palette (main.rs 106-123)

\* Swatches get_palette may return
SortColors ==
  {<<0, 0, 0>>, <<10, 3, 5>>, <<15, 0, 0>>, <<12, 12, 4>>,
   <<128, 0, 0>>, <<200, 100, 100>>, <<255, 0, 0>>, <<255, 255, 255>>}

\* u8 arithmetic of the sort key closure (main.rs 113-118): max + min, then
\* the product, are computed in u8
AddOverflows(c) == Max3(c) + Min3(c) > 255
MulOverflows(c) == ((Max3(c) + Min3(c)) % 256) * (Max3(c) - Min3(c)) > 255
KeyOverflows(c) == AddOverflows(c) \/ MulOverflows(c)

\* The value of the closure where the arithmetic wraps (overflow checks off)
SortKey(c) ==
  ((((Max3(c) + Min3(c)) % 256) * (Max3(c) - Min3(c))) % 256)
     \div Max2(Max3(c), 1)

\* sort_unstable_by_key on the two swatches: ascending by key, equal keys in
\* either order
SortedByKey(d) ==
  {p \in {d, <<d[2], d[1]>>} : SortKey(p[1]) <= SortKey(p[2])}

SortInit ==
  /\ dominant \in [1..2 -> SortColors]
  /\ sorted \in BOOLEAN
  /\ build \in {"debug", "release"}
  /\ keys = <<>>
  /\ dominant_color = None
  /\ spc = "start"
  /\ VibIdle /\ LoopIdle /\ SqIdle

\* if sorted { dominant.sort_unstable_by_key(..) }, the keys computed
SortDominant ==
  /\ spc = "start"
  /\ sorted
  /\ build = "debug" => \A i \in 1..2 : ~KeyOverflows(dominant[i])
  /\ \E d \in SortedByKey(dominant) :
       /\ dominant' = d
       /\ keys' = [i \in 1..2 |-> SortKey(d[i])]
  /\ spc' = "sorted"
  /\ UNCHANGED <<sorted, build, dominant_color, vibVars, loopVars, sqVars>>

\* with overflow checks the closure panics: attempt to add / multiply with
\* overflow
SortPanics ==
  /\ spc = "start"
  /\ sorted
  /\ build = "debug"
  /\ \E i \in 1..2 : KeyOverflows(dominant[i])
  /\ spc' = "panicked"
  /\ UNCHANGED <<dominant, sorted, build, keys, dominant_color,
                 vibVars, loopVars, sqVars>>

\* let dominant = dominant[0]; color / 255.0   (main.rs 120-122)
TakeDominant ==
  /\ \/ spc = "sorted"
     \/ spc = "start" /\ ~sorted
  /\ dominant_color' = Normalize(dominant[1])
  /\ spc' = "done"
  /\ UNCHANGED <<dominant, sorted, build, keys, vibVars, loopVars, sqVars>>

SortNext == SortDominant \/ SortPanics \/ TakeDominant

SortSpec == SortInit /\ [][SortNext]_vars

-----------------------------------------------------------------------------
\* The SquaredAverage strategy (main.rs 83-105); sample_rate in hundredths

\* Sample rates of (0, 1], exact in f32
SampleRates == {25, 50, 75, 100}

\* (v as f32 * sample_rate) as usize: the cast truncates
Truncated(v, rate) == (v * rate) \div 100

\* Frames: one colour everywhere, or two colours alternating
BufferSet(w, h) ==
  {[i \in 1..(w * h) |-> Vivid], [i \in 1..(w * h) |-> Black],
   [i \in 1..(w * h) |-> IF i % 2 = 1 THEN Vivid ELSE Maroon]}

SqInit ==
  /\ width \in 1..MaxDim
  /\ height \in 1..MaxDim
  /\ sample_rate \in SampleRates
  /\ buffer \in BufferSet(width, height)
  /\ sample_width = 0 /\ sample_height = 0 /\ step_x = 0 /\ step_y = 0
  /\ x = 0 /\ y = 0 /\ samples = 0 /\ reads = {}
  /\ sampled_color = <<0, 0, 0>>
  /\ avg = <<0, 0, 0>>
  /\ qpc = "start"
  /\ VibIdle /\ LoopIdle /\ SortIdle

\* main.rs 84: let sample_width = (width as f32 * sample_rate) as usize
SampleWidth(w, h, rate) == Truncated(w, rate)

\* main.rs 86: let sample_height = (width as f32 * sample_rate) as usize
SampleHeight(w, h, rate) == Truncated(w, rate)

\* main.rs 84-89: the grid; both divisions have a divisor that is not zero
ComputeGrid ==
  /\ qpc = "start"
  /\ SampleWidth(width, height, sample_rate) # 0
  /\ SampleHeight(width, height, sample_rate) # 0
  /\ sample_width' = SampleWidth(width, height, sample_rate)
  /\ step_x' = width \div SampleWidth(width, height, sample_rate)
  /\ sample_height' = SampleHeight(width, height, sample_rate)
  /\ step_y' = height \div SampleHeight(width, height, sample_rate)
  /\ qpc' = "loop"
  /\ UNCHANGED <<width, height, sample_rate, buffer, x, y, samples, reads,
                 sampled_color, avg, vibVars, loopVars, sortVars>>

\* main.rs 85, 87: width / sample_width or height / sample_height with a
\* zero divisor panics: attempt to divide by zero
GridPanics ==
  /\ qpc = "start"
  /\ \/ SampleWidth(width, height, sample_rate) = 0
     \/ SampleHeight(width, height, sample_rate) = 0
  /\ sample_width' = SampleWidth(width, height, sample_rate)
  /\ qpc' = "panicked"
  /\ UNCHANGED <<width, height, sample_rate, sample_height, step_x, step_y,
                 buffer, x, y, samples, reads, sampled_color, avg,
                 vibVars, loopVars, sortVars>>

\* main.rs 90-100: one pass of the inner loop body; buffer[i] panics when i
\* is out of bounds
SampleNext ==
  /\ qpc = "loop"
  /\ x < sample_width
  /\ y < sample_height
  /\ LET i == (x * step_x) + width * (y * step_y)
     IN /\ reads' = reads \cup {i}
        /\ IF i < Len(buffer)
           THEN /\ sampled_color' =
                     [k \in 1..3 |-> sampled_color[k]
                                       + buffer[i + 1][k] * buffer[i + 1][k]]
                /\ samples' = samples + 1
                /\ IF y + 1 < sample_height
                   THEN y' = y + 1 /\ x' = x
                   ELSE y' = 0 /\ x' = x + 1
                /\ qpc' = "loop"
           ELSE /\ qpc' = "panicked"
                /\ UNCHANGED <<x, y, samples, sampled_color>>
  /\ UNCHANGED <<width, height, sample_rate, sample_width, sample_height,
                 step_x, step_y, buffer, avg, vibVars, loopVars, sortVars>>

\* main.rs 103-104: the average, its square root, over 255
Average ==
  /\ qpc = "loop"
  /\ x >= sample_width
  /\ avg' = [k \in 1..3 |->
               (SqrtBetween((sampled_color[k] \div samples) * Scale,
                            0, 255 * 100) * 100) \div 255]
  /\ qpc' = "done"
  /\ UNCHANGED <<width, height, sample_rate, sample_width, sample_height,
                 step_x, step_y, buffer, x, y, samples, reads, sampled_color,
                 vibVars, loopVars, sortVars>>

SqNext == ComputeGrid \/ GridPanics \/ SampleNext \/ Average

SqSpec == SqInit /\ [][SqNext]_vars

-----------------------------------------------------------------------------
\* Properties of the Vibrancy strategy, checked under VibSpec

Categories ==
  {"primary", "dark", "light", "muted", "dark_muted", "light_muted"}

AllNone == \A c \in Categories : vibrancy[c] = None

\* C1: after every assignment step the categories that are not None hold
\* pairwise different colours.
C1_NoColourInTwoCategories ==
  \A c1 \in Categories : \A c2 \in Categories \ {c1} :
     vibrancy[c1] # None => vibrancy[c1] # vibrancy[c2]

\* C1 witness: the swatch given to primary also lies in the window of light,
\* light has been assigned, and holds another value.
C1_Witness ==
  /\ vstep > 2
  /\ vibrancy.primary # None
  /\ HslL(vibrancy.primary) >= LumaOf("light").min
  /\ HslS(vibrancy.primary) >= SaturationOf("light").min
  /\ vibrancy.light # vibrancy.primary

\* Number of pixels of the image that the quantizer classified to an entry of
\* the colour map whose colour is c
PixelsNearestTo(c) ==
  Cardinality({k \in 1..Len(image) :
                 to_rgb(quant.colormap[quant.index[image[k]] + 1]) = c})

\* C2 (as claimed): the histogram entry at key i of the deduplicated palette
\* is the number of pixels whose nearest trained colour is palette[i].
C2_HistogramFollowsPalette ==
  vstep >= 1 =>
    \A i \in 0..(Len(palette.palette) - 1) :
       GetCount(palette.pixel_counts, i) = PixelsNearestTo(palette.palette[i + 1])

\* C3: the histogram counts every pixel of the image exactly once.
C3_HistogramCountsEveryPixel ==
  vstep >= 1 => CompletePopulation(palette.pixel_counts) = Len(image)

\* C3 witness: a palette built from an image with a boring and an
\* interesting pixel.
C3_Witness ==
  /\ vstep >= 1
  /\ \E k \in 1..Len(image) : is_boring_pixel(image[k])
  /\ \E k \in 1..Len(image) : ~is_boring_pixel(image[k])

\* Boring as the specification words it: alpha < 125, or all three colour
\* channels > 250
BoringAsSpecified(p) == p[4] < 125 \/ (p[1] > 250 /\ p[2] > 250 /\ p[3] > 250)

AllBoring == \A k \in 1..Len(image) : BoringAsSpecified(image[k])

Priority ==
  <<"primary", "light", "light_muted", "muted", "dark_muted", "dark">>

\* The first category of Priority that is not None, if any
FirstPresent ==
  LET present == {n \in 1..Len(Priority) : vibrancy[Priority[n]] # None}
  IN IF present = {} THEN None
     ELSE vibrancy[Priority[CHOOSE n \in present : \A m \in present : n <= m]]

\* C5 (as claimed): the raw sample is the first category present in priority
\* order, and it is black exactly when all six are None.
C5_BlackExactlyWhenAllNone ==
  vstep > Len(CategoryOrder) + 1 =>
    /\ ~AllNone => sample = FirstPresent
    /\ (sample = Black) <=> AllNone

\* C5 (amended): the raw sample is the first category present in priority
\* order, and it is black whenever all six are None.
C5_FirstPresentElseBlack ==
  vstep > Len(CategoryOrder) + 1 =>
    /\ ~AllNone => sample = FirstPresent
    /\ AllNone => sample = Black

\* C5 witness: the sample came from light_muted, with lower priorities set.
C5_Witness ==
  /\ vstep > Len(CategoryOrder) + 1
  /\ vibrancy.primary = None /\ vibrancy.light = None
  /\ vibrancy.light_muted # None /\ vibrancy.dark_muted # None
  /\ sample = vibrancy.light_muted

-----------------------------------------------------------------------------
\* Properties of the frame loop, checked under Spec

Updates == {i \in 1..Len(trace) : trace[i].ev = "update"}
Last(S) == CHOOSE i \in S : \A j \in S : j <= i

\* The running colour an update found: that of the update before, or black
Inherited(i) ==
  LET earlier == {j \in Updates : j < i}
  IN IF earlier = {} THEN <<0, 0, 0>> ELSE trace[Last(earlier)].after

\* C6: the running colour starts at black and each frame sets it to
\* previous*fade + corrected*(1 - fade); with fade = 1 it is black after
\* every frame, with fade = 0 it is the corrected sample of the last frame.
C6_FadeRecurrence ==
  /\ previous_pixel = Inherited(Len(trace) + 1)
  /\ \A i \in Updates :
       /\ trace[i - 1].ev = "capture"
       /\ trace[i - 1].before = Inherited(i)
       /\ \A k \in 1..3 :
            trace[i].after[k] =
              (trace[i - 1].before[k] * fade
                 + Correct(trace[i - 1].raw)[k] * (100 - fade)) \div 100
  /\ fade = 100 => previous_pixel = <<0, 0, 0>>
  /\ (fade = 0 /\ Updates # {}) =>
        /\ previous_pixel = Correct(trace[Last(Updates) - 1].raw)
        /\ previous_pixel = corrected

\* C6 witness: without fading, a second frame whose sample differs from the
\* first one's has been stored.
C6_Witness ==
  /\ fade = 0
  /\ Cardinality(Updates) >= 2
  /\ \E i \in Updates : \E j \in Updates :
        i < j /\ Correct(trace[i - 1].raw) # Correct(trace[j - 1].raw)
  /\ previous_pixel # <<0, 0, 0>>

\* C7: captures and writes alternate, beginning with a capture; every
\* successful capture is followed by one update and then one write (or the
\* failed write that ends the run); the write carries the colour of the
\* frame of its iteration; a failed capture is the last event and leaves the
\* running colour as the last update set it.
C7_StrictlySequential ==
  \A i \in 1..Len(trace) :
    LET e == trace[i]
    IN /\ e.ev \in {"capture", "capture_failed"} <=> i % 3 = 1
       /\ e.ev = "update" <=> i % 3 = 2
       /\ e.ev \in {"write", "write_failed"} <=> i % 3 = 0
       /\ e.ev \in {"capture_failed", "write_failed"} =>
            /\ i = Len(trace)
            /\ pc = "exited"
            /\ previous_pixel = Inherited(i)
       /\ e.ev = "update" => trace[i - 1].ev = "capture" /\ trace[i - 1].n = e.n
       /\ e.ev = "write" =>
            /\ trace[i - 1].ev = "update"
            /\ trace[i - 2].n = e.n
            /\ e.n = i \div 3
            /\ e.cmd = ColorCmd(Fade(trace[i - 2].before,
                                     Correct(trace[i - 2].raw), fade))

\* C7 witness: two full iterations, then a capture that failed.
C7_Witness ==
  /\ Len(trace) = 7
  /\ trace[3].ev = "write" /\ trace[6].ev = "write"
  /\ trace[3].cmd # trace[6].cmd
  /\ trace[7].ev = "capture_failed"

-----------------------------------------------------------------------------
\* Properties of the MostDominant sort, checked under SortSpec

\* The contrast metric over the integers
ContrastMetric(c) ==
  ((Max3(c) + Min3(c)) * (Max3(c) - Min3(c))) \div Max2(Max3(c), 1)

\* C8 (as claimed): with sorted = true the key of every swatch is
\* ((max+min)*(max-min)) / max(max,1), the computation never overflows or
\* wraps, and the palette is ascending by that value when index 0 is taken.
C8_KeyIsContrastMetric ==
  sorted =>
    /\ spc # "panicked"
    /\ spc \in {"sorted", "done"} =>
         /\ \A i \in 1..2 : ~KeyOverflows(dominant[i])
         /\ \A i \in 1..2 : keys[i] = ContrastMetric(dominant[i])
         /\ ContrastMetric(dominant[1]) <= ContrastMetric(dominant[2])

-----------------------------------------------------------------------------
\* Properties of the SquaredAverage strategy, checked under SqSpec

\* round(v * sample_rate)
Rounded(v, rate) == (2 * v * rate + 100) \div 200

\* C9 (as claimed): the column count comes from the width, the row count
\* from the height: sample_width = round(width*rate), step_x =
\* width/sample_width, sample_height = round(height*rate), step_y =
\* height/sample_height.
C9_GridFollowsWidthAndHeight ==
  qpc \in {"loop", "done"} =>
    /\ sample_width = Rounded(width, sample_rate)
    /\ step_x = width \div sample_width
    /\ sample_height = Rounded(height, sample_rate)
    /\ step_y = height \div sample_height

\* C10 (as claimed): for width, height >= 1 and a rate in (0,1] the strategy
\* completes without a fault: no division by zero, at least one pixel
\* sampled, every index read below width*height.
C10_CompletesWithoutFault ==
  /\ qpc # "panicked"
  /\ qpc = "done" => samples >= 1
  /\ \A i \in reads : i < width * height

====
